---- MODULE Spec2Model ----
(***************************************************************************)
(* A model of tessa's price accessors (tessa/price/price.py), of its       *)
(* investpy search layer (tessa/investing_search.py) and of the            *)
(* ExtendedSymbol dataclass (tessa/symbol/extended_symbol.py).             *)
(*                                                                         *)
(* Strings whose case matters (currencies, queries, symbols, names) are    *)
(* sequences of one-character strings, so that str.upper and str.lower can *)
(* be computed character by character.  Timestamps and prices are small    *)
(* naturals.  A dataframe with a DatetimeIndex and the single column       *)
(* "close" is a sequence of rows [t, close], sorted by t as the sources    *)
(* deliver it.  Dataframes are mutable objects: they live in a heap and    *)
(* are referred to by object id.                                           *)
(***************************************************************************)
EXTENDS Integers, Sequences, FiniteSets, TLC

VARIABLES
    cache,      \* price_history's lru_cache: argument list as passed -> PriceHistory
    heap,       \* dataframe objects: object id -> rows (current content)
    fetched,    \* ghost: object id -> [key, rows] as delivered by the source
    rl,         \* ghost: argument list -> number of rate_limiter.rate_limit() calls
    gp,         \* ghost: argument list -> number of get_price_history_bruteforcefully calls
    handed,     \* object ids price_history has returned to a caller outside the module
    nCalls,     \* number of operations performed so far (bounded by MaxCalls)
    last,       \* the last operation, its arguments and what it returned or raised
    sreq,       \* search: the call made (function, query, countries, products)
    sres,       \* search: the dict the call returned
    slog,       \* ghost: the investpy.search_<product> calls made, with their answers
    sqlog,      \* ghost: the investpy.search_quotes calls made, with their answers
    sout,       \* search: how the call ended ("" before it, "returned", or an exception)
    drow,       \* _dataframe_to_symbols: the dataframe row being converted
    dprod,      \* _dataframe_to_symbols: the product (plural) argument
    dsym,       \* _dataframe_to_symbols: the Symbol arguments built from the row
    esym,       \* ExtendedSymbol: the fields of the object the caller's variable refers to
    ereq,       \* ExtendedSymbol: the last operation and its arguments
    eret        \* ExtendedSymbol: what the last operation returned or raised

vars == <<cache, heap, fetched, rl, gp, handed, nCalls, last,
          sreq, sres, slog, sqlog, sout, drow, dprod, dsym, esym, ereq, eret>>

priceVars == <<cache, heap, fetched, rl, gp, handed, nCalls, last>>
searchVars == <<sreq, sres, slog, sqlog, sout>>
dfVars == <<drow, dprod, dsym>>
symVars == <<esym, ereq, eret>>

(***************************************************************************)
(* Bounds of the model.                                                    *)
(***************************************************************************)
MaxCalls == 3
MaxTime == 5

(***************************************************************************)
(* str.upper / str.lower on ASCII letters.                                 *)
(***************************************************************************)
LowerAlphabet ==
    <<"a","b","c","d","e","f","g","h","i","j","k","l","m",
      "n","o","p","q","r","s","t","u","v","w","x","y","z">>
UpperAlphabet ==
    <<"A","B","C","D","E","F","G","H","I","J","K","L","M",
      "N","O","P","Q","R","S","T","U","V","W","X","Y","Z">>

UpperChar(c) ==
    IF \E i \in 1..26 : LowerAlphabet[i] = c
    THEN UpperAlphabet[CHOOSE i \in 1..26 : LowerAlphabet[i] = c]
    ELSE c

LowerChar(c) ==
    IF \E i \in 1..26 : UpperAlphabet[i] = c
    THEN LowerAlphabet[CHOOSE i \in 1..26 : UpperAlphabet[i] = c]
    ELSE c

Upper(s) == [i \in 1..Len(s) |-> UpperChar(s[i])]
Lower(s) == [i \in 1..Len(s) |-> LowerChar(s[i])]

(***************************************************************************)
(* price.py: arguments, the sources, and dataframe access.                 *)
(***************************************************************************)

DefaultSource == "yahoo"
DefaultCurrency == "USD"

\* The (query, source, currency_preference) triples of the model: the default
\* triple of a query and one triple differing from it in each single argument.
Triples ==
    { <<"AAPL", "yahoo", "USD">>, <<"BTC", "yahoo", "USD">>,
      <<"AAPL", "coingecko", "USD">>, <<"AAPL", "yahoo", "CHF">> }

\* The argument lists a caller passes to price_history positionally: all three
\* arguments, or only (query), or only (query, source).
ArgLists == Triples \cup { <<"AAPL">>, <<"AAPL", "yahoo">> }

\* Python binds the parameters a call leaves out to their defaults.
Bind(args) ==
    <<args[1],
      IF Len(args) >= 2 THEN args[2] ELSE DefaultSource,
      IF Len(args) >= 3 THEN args[3] ELSE DefaultCurrency>>

\* functools.lru_cache(maxsize=None) keys an entry on the arguments as the call
\* passes them: defaults are not filled in before the lookup.
CacheKeySharedAcrossCurrencies(args) == SubSeq(args, 1, IF Len(args) >= 2 THEN 2 ELSE 1)
CacheKey(args) == args

\* What src.get_price_history_bruteforcefully(query, currency_preference) answers
\* when it does not raise: a non-empty price history sorted by time, and the
\* currency in whatever spelling the provider reports.
SourceRows(triple) ==
    IF triple[1] = "AAPL" /\ triple[2] = "yahoo"
    THEN <<[t |-> 2, close |-> 10], [t |-> 4, close |-> 11]>>
    ELSE IF triple[1] = "BTC"
    THEN <<[t |-> 1, close |-> 20], [t |-> 2, close |-> 21], [t |-> MaxTime, close |-> 22]>>
    ELSE <<[t |-> 3, close |-> 30]>>
SourceCurrency(triple) ==
    IF triple[2] = "coingecko" THEN <<"u","s","d">>
    ELSE IF triple[3] = "CHF" THEN <<"C","h","f">>
    ELSE IF triple[1] = "BTC" THEN <<"U","s","D">>
    ELSE <<"U","S","D">>
SourceReply(triple) == [rows |-> SourceRows(triple), currency |-> SourceCurrency(triple)]

Times == 1..MaxTime
NoObj == <<>>
NoPoint == [when |-> 0 - 1, price |-> 0 - 1, currency |-> <<>>]
NoHistory == [df |-> NoObj, currency |-> <<>>]

Abs(x) == IF x < 0 THEN 0 - x ELSE x

\* df.copy(): a new dataframe object with the same rows.  There is one such
\* object per cache entry: an object is named by the key it was built under.
DfCopy(key) == key

\* effective_currency.upper()
EffectiveCurrencyAsReported(reply) == reply.currency
EffectiveCurrency(reply) == Upper(reply.currency)

\* The body of price_history run on a cache miss, and lru_cache around it.  The
\* result is the state after the call and what the call gives back: on a hit the
\* stored PriceHistory itself (the same dataframe object every time), on a miss
\* the PriceHistory just built, which lru_cache stores before returning it.
price_history_call(args, fails) ==
    LET key == CacheKey(args)
        triple == Bind(args)
        reply == SourceReply(triple)
    IN  IF key \in DOMAIN cache
        THEN [cache |-> cache, heap |-> heap, fetched |-> fetched, rl |-> rl, gp |-> gp,
              hit |-> TRUE, raised |-> "", value |-> cache[key]]
        ELSE IF fails
        THEN [cache |-> cache, heap |-> heap, fetched |-> fetched,
              rl |-> [rl EXCEPT ![triple] = @ + 1],
              gp |-> [gp EXCEPT ![triple] = @ + 1],
              hit |-> FALSE, raised |-> "SourceError", value |-> NoHistory]
        ELSE LET obj == DfCopy(key)
                 ph == [df |-> obj, currency |-> EffectiveCurrency(reply)]
             IN  [cache |-> cache @@ (key :> ph),
                  heap |-> heap @@ (obj :> reply.rows),
                  fetched |-> fetched @@ (obj :> [triple |-> triple, rows |-> reply.rows]),
                  rl |-> [rl EXCEPT ![triple] = @ + 1],
                  gp |-> [gp EXCEPT ![triple] = @ + 1],
                  hit |-> FALSE, raised |-> "", value |-> ph]

\* df.index.get_indexer([when], method="nearest")[0] on an increasing index: the
\* position of the last entry at or before `when` (pad) or of the first entry at
\* or after it (backfill), whichever is nearer; pandas takes the pad position
\* only when it is strictly nearer or there is no backfill position.
PadPos(rows, when) ==
    IF \E i \in 1..Len(rows) : rows[i].t <= when
    THEN CHOOSE i \in 1..Len(rows) :
            rows[i].t <= when /\ \A j \in 1..Len(rows) : rows[j].t <= when => j <= i
    ELSE 0
BackfillPos(rows, when) ==
    IF \E i \in 1..Len(rows) : rows[i].t >= when
    THEN CHOOSE i \in 1..Len(rows) :
            rows[i].t >= when /\ \A j \in 1..Len(rows) : rows[j].t >= when => j >= i
    ELSE 0
GetIndexerPad(rows, when) ==
    IF PadPos(rows, when) # 0 THEN PadPos(rows, when) ELSE BackfillPos(rows, when)
GetIndexerNearest(rows, when) ==
    LET l == PadPos(rows, when)
        r == BackfillPos(rows, when)
    IN  IF r = 0 THEN l
        ELSE IF l = 0 THEN r
        ELSE IF Abs(when - rows[l].t) < Abs(rows[r].t - when) THEN l ELSE r

\* df.loc[when]: the position of the row labelled `when`, 0 for KeyError.
LocOrNearest(rows, when) == GetIndexerNearest(rows, when)
Loc(rows, when) ==
    IF \E i \in 1..Len(rows) : rows[i].t = when
    THEN CHOOSE i \in 1..Len(rows) : rows[i].t = when
    ELSE 0

\* df.iloc[-1]: the position of the last row.
IlocLast(rows) == Len(rows)

PricePointOf(rows, pos, currency) ==
    [when |-> rows[pos].t, price |-> rows[pos].close, currency |-> currency]

Last(op, args, when, r, point, raised) ==
    [op |-> op, args |-> args, when |-> when, hit |-> r.hit, raised |-> raised,
     df |-> r.value.df, currency |-> r.value.currency, point |-> point]

PriceInit ==
    /\ cache = <<>>
    /\ heap = <<>>
    /\ fetched = <<>>
    /\ rl = [x \in Triples |-> 0]
    /\ gp = [x \in Triples |-> 0]
    /\ handed = {}
    /\ nCalls = 0
    /\ last = [op |-> "none", args |-> <<>>, when |-> 0, hit |-> FALSE, raised |-> "",
               df |-> NoObj, currency |-> <<>>, point |-> NoPoint]

Commit(r) ==
    /\ cache' = r.cache
    /\ heap' = r.heap
    /\ fetched' = r.fetched
    /\ rl' = r.rl
    /\ gp' = r.gp
    /\ nCalls' = nCalls + 1

\* price_history(...) called by a user of the module.
price_history ==
    /\ nCalls < MaxCalls
    /\ \E args \in ArgLists, fails \in BOOLEAN :
         LET r == price_history_call(args, fails)
         IN  /\ Commit(r)
             /\ handed' = IF r.raised = "" THEN handed \cup {r.value.df} ELSE handed
             /\ last' = Last("price_history", args, 0, r, NoPoint, r.raised)

\* price_point(query, when, source, currency_preference)
price_point ==
    /\ nCalls < MaxCalls
    /\ \E x \in Triples, when \in Times, fails \in BOOLEAN :
         LET r == price_history_call(<<x[1], x[2], x[3]>>, fails)
         IN  /\ Commit(r)
             /\ handed' = handed
             /\ IF r.raised # ""
                THEN last' = Last("price_point", x, when, r, NoPoint, r.raised)
                ELSE LET rows == r.heap[r.value.df]
                         pos == GetIndexerNearest(rows, when)
                     IN  last' = Last("price_point", x, when, r,
                                      PricePointOf(rows, pos, r.value.currency), "")

\* price_point_strict(query, when, source, currency_preference)
price_point_strict ==
    /\ nCalls < MaxCalls
    /\ \E x \in Triples, when \in Times, fails \in BOOLEAN :
         LET r == price_history_call(<<x[1], x[2], x[3]>>, fails)
         IN  /\ Commit(r)
             /\ handed' = handed
             /\ IF r.raised # ""
                THEN last' = Last("price_point_strict", x, when, r, NoPoint, r.raised)
                ELSE LET rows == r.heap[r.value.df]
                         pos == Loc(rows, when)
                     IN  IF pos = 0
                         THEN last' = Last("price_point_strict", x, when, r, NoPoint, "KeyError")
                         ELSE last' = Last("price_point_strict", x, when, r,
                                           PricePointOf(rows, pos, r.value.currency), "")

\* price_latest(query, source, currency_preference)
price_latest ==
    /\ nCalls < MaxCalls
    /\ \E x \in Triples, fails \in BOOLEAN :
         LET r == price_history_call(<<x[1], x[2], x[3]>>, fails)
         IN  /\ Commit(r)
             /\ handed' = handed
             /\ IF r.raised # ""
                THEN last' = Last("price_latest", x, 0, r, NoPoint, r.raised)
                ELSE LET rows == r.heap[r.value.df]
                     IN  last' = Last("price_latest", x, 0, r,
                                      PricePointOf(rows, IlocLast(rows), r.value.currency), "")

\* A caller that holds a dataframe returned by price_history changes it in place,
\* e.g. df["close"] = 0.
CallerMutates ==
    /\ \E obj \in handed :
         /\ \E i \in 1..Len(heap[obj]) : heap[obj][i].close # 0
         /\ heap' = [heap EXCEPT ![obj] = [i \in 1..Len(heap[obj]) |-> [heap[obj][i] EXCEPT !.close = 0]]]
    /\ last' = [last EXCEPT !.op = "mutate"]
    /\ UNCHANGED <<cache, fetched, rl, gp, handed, nCalls>>

(***************************************************************************)
(* investing_search.py: _dataframe_to_symbols.                             *)
(*                                                                         *)
(* A dataframe row (row.to_dict()) is a function from column names to cell *)
(* values; a Symbol's keyword arguments are a function from argument names *)
(* to values.  Cell values here are plain strings.                         *)
(***************************************************************************)
None == "<None>"

\* investing_types: the product types in plural, as the provider's search
\* functions are named, and their singulars.
Plurals ==
    <<"stocks", "etfs", "funds", "indices", "certificates",
      "currency_crosses", "bonds", "commodities">>
Singulars ==
    <<"stock", "etf", "fund", "index", "certificate",
      "currency_cross", "bond", "commodity">>
get_plurals == Plurals
ensure_singular(product) ==
    IF \E i \in 1..Len(Plurals) : Plurals[i] = product
    THEN Singulars[CHOOSE i \in 1..Len(Plurals) : Plurals[i] = product]
    ELSE product
is_valid(type) ==
    \E i \in 1..Len(Plurals) : Plurals[i] = type \/ Singulars[i] = type

Range(f) == {f[x] : x \in DOMAIN f}

\* d.get(col, None)
Get(d, col) == IF col \in DOMAIN d THEN d[col] ELSE None

\* The set expression of lines 69-72.  In Python "-" binds tighter than "|":
\*   {name, full_name} | (({isin} - {args["name"]}) - {None, ""})
AliasSet(d, name) ==
    {Get(d, "name"), Get(d, "full_name")} \cup (({Get(d, "isin")} \ {name}) \ {None, ""})

\* list.extend(a set): the elements of the set, each once, in the set's
\* iteration order.
SetOrders(S) ==
    {o \in [1..Cardinality(S) -> S] : \A i, j \in 1..Cardinality(S) : o[i] = o[j] => i = j}

NameColumn(type_) ==
    IF type_ \in {"currency_cross", "bond", "commodity"} THEN "name" ELSE "symbol"

HasQuery(type_) == type_ \in {"etf", "fund", "certificate", "index"}

\* The body of the loop of _dataframe_to_symbols for one row: the keyword
\* arguments passed to Symbol.  `order` is the iteration order of the alias set.
RowToSymbolArgs(d, product, order) ==
    LET type_ == ensure_singular(product)
        name == d[NameColumn(type_)]
    IN  [x \in {"type_", "aliases", "name"}
               \cup (IF type_ # "currency_cross" THEN {"country"} ELSE {})
               \cup (IF HasQuery(type_) THEN {"query"} ELSE {}) |->
            CASE x = "type_" -> type_
              [] x = "aliases" -> order
              [] x = "name" -> name
              [] x = "country" -> d["country"]
              [] x = "query" -> d["name"]]

\* The specification at the end of the file (lines 242-297): for each type the
\* column each Symbol attribute comes from.
MappingNameColumn(type_) ==
    IF type_ \in {"currency_cross", "bond", "commodity"} THEN "name" ELSE "symbol"
MappingHasQuery(type_) == type_ \in {"etf", "fund", "index", "certificate"}
MappingAliasColumns(type_) ==
    IF type_ \in {"etf", "stock", "index", "certificate"} THEN {"full_name", "name"}
    ELSE IF type_ = "fund" THEN {"name"}
    ELSE {"full_name"}
MappingHasCountry(type_) == type_ # "currency_cross"

\* The dataframe rows of a product: the columns the mapping reads, and possibly
\* an "isin" column.  Cells can repeat one another's value and can be empty.
RequiredColumns(type_) ==
    {MappingNameColumn(type_)} \cup MappingAliasColumns(type_)
    \cup (IF MappingHasQuery(type_) THEN {"name"} ELSE {})
    \cup (IF MappingHasCountry(type_) THEN {"country"} ELSE {})
Restrict(f, S) == [x \in S |-> f[x]]
RowsOf(product) ==
    LET cols == RequiredColumns(ensure_singular(product))
    IN  { Restrict([symbol |-> sy, name |-> nm, full_name |-> fn, isin |-> isin,
                    country |-> "us"],
                   IF isin = None THEN cols ELSE cols \cup {"isin"}) :
            sy \in {"a", "b"}, nm \in {"a", "b", ""}, fn \in {"a", "c", ""},
            isin \in {"a", "i", "", None} }

DfIdle ==
    /\ drow = <<>>
    /\ dprod = ""
    /\ dsym = <<>>

\* A row of a search result of some product, not yet converted.
DfInit ==
    /\ \E i \in 1..Len(Plurals) :
         /\ dprod = Plurals[i]
         /\ drow \in RowsOf(Plurals[i])
    /\ dsym = <<>>

\* The row is converted.
DfConvertRow ==
    /\ drow # <<>> /\ dsym = <<>>
    /\ \E order \in SetOrders(AliasSet(drow, drow[NameColumn(ensure_singular(dprod))])) :
         dsym' = RowToSymbolArgs(drow, dprod, order)
    /\ UNCHANGED <<drow, dprod>>

(***************************************************************************)
(* investing_search.py: the search functions.                              *)
(*                                                                         *)
(* An argument that may be None, a string or a list is a record            *)
(* [kind, v]: kind is "none", "str" or "list" and v the sequence of the    *)
(* strings given (one string for kind "str").  Each call modelled is one   *)
(* on which lru_cache runs the function body.                              *)
(***************************************************************************)
MaxAnswers == 1
MaxObjs == 2

NoneArg == [kind |-> "none", v |-> <<>>]
Str(x) == [kind |-> "str", v |-> <<x>>]
List(xs) == [kind |-> "list", v |-> xs]

\* [x] if isinstance(x, str) else x
AsList(arg) == arg.v

valid_bys == <<"full_name", "name", "symbol">>

SearchQueries == { <<"A", "b">> }
CountryArgs == { NoneArg, Str("ch"), List(<<"us">>) }
ProductArgs ==
    { NoneArg, Str("stocks"), Str("currency_crosses"),
      List(<<"funds", "bogus">>), List(<<"bogus">>), List(<<"bonds", "stocks">>) }

\* The provider's dataframes: what investpy.search_<product>(by, value) returns
\* when it does not raise.  Variant 1 is one row of country "us", variant 2 a
\* row of country "us" and one of country "ch".  Currency crosses have no
\* "country" column.
ProviderRow(product, country) ==
    LET cols == RequiredColumns(ensure_singular(product)) \cup {"isin"}
    IN  Restrict([symbol |-> "a", name |-> "b", full_name |-> "c", isin |-> "i",
                  country |-> country], cols)
ProviderDf(product, variant) ==
    IF variant = 1 THEN <<ProviderRow(product, "us")>>
    ELSE <<ProviderRow(product, "us"), ProviderRow(product, "ch")>>

\* The product types the provider has instruments of, and the product/by
\* combinations it can therefore answer.
Catalogue == {"stocks", "funds", "currency_crosses"}
Combos == { <<p, valid_bys[j]>> : p \in Catalogue, j \in 1..Len(valid_bys) }

\* The provider as one call finds it: every combination raises the default
\* error (investpy raises RuntimeError when nothing is found and ValueError for
\* arguments it rejects) except at most MaxAnswers combinations that answer
\* with a dataframe.
RECURSIVE AnswerMaps(_)
AnswerMaps(k) ==
    IF k = 0 THEN { <<>> }
    ELSE AnswerMaps(k - 1)
         \cup { m @@ (c :> v) : m \in AnswerMaps(k - 1), c \in Combos, v \in {1, 2} }
Worlds == [default : {"RuntimeError", "ValueError"}, answers : AnswerMaps(MaxAnswers)]

\* getattr(investpy, "search_" + product)(by=by, value=query)
ProviderSearch(world, product, by) ==
    IF <<product, by>> \in DOMAIN world.answers
    THEN [raises |-> "", df |-> ProviderDf(product, world.answers[<<product, by>>])]
    ELSE [raises |-> world.default, df |-> <<>>]

\* set(products) & set(valid_products)
OnlyValid(products) == Range(products) \cap Range(get_plurals)

\* df[df.country.isin(countries)]
FilterCountries(df, countries) ==
    SelectSeq(df, LAMBDA row : row["country"] \in Range(countries))

\* _dataframe_to_symbols(df, product): one Symbol per row.
dataframe_to_symbols(df, product) ==
    [i \in 1..Len(df) |->
        LET name == df[i][NameColumn(ensure_singular(product))]
        IN  RowToSymbolArgs(df[i], product,
                            CHOOSE o \in SetOrders(AliasSet(df[i], name)) : TRUE)]

\* f"investing_{product}_by_{by}"
ResultKey(product, by) == <<"investing", product, "by", by>>

\* except (RuntimeError, ValueError): continue
BreakLoop(todo) == <<>>
ContinueLoop(todo) == Tail(todo)

\* The search loop of search_name_or_symbol over the product/by combinations
\* in `todo`, from the result and the log so far.
RECURSIVE SearchLoop(_, _, _, _, _)
SearchLoop(todo, world, countries, res, log) ==
    IF todo = <<>> THEN [res |-> res, log |-> log, out |-> "returned"]
    ELSE LET product == Head(todo)[1]
             by == Head(todo)[2]
             ans == ProviderSearch(world, product, by)
             log2 == Append(log, [product |-> product, by |-> by, answer |-> ans])
         IN  IF ans.raises # ""
             THEN SearchLoop(ContinueLoop(todo), world, countries, res, log2)
             ELSE IF countries.kind # "none" /\ "country" \notin DOMAIN ans.df[1]
             THEN [res |-> res, log |-> log2, out |-> "AttributeError"]
             ELSE LET df == IF countries.kind # "none"
                            THEN FilterCountries(ans.df, AsList(countries))
                            ELSE ans.df
                  IN  IF Len(df) > 0
                      THEN SearchLoop(Tail(todo), world, countries,
                                      res @@ (ResultKey(product, by) :>
                                                  dataframe_to_symbols(df, product)),
                                      log2)
                      ELSE SearchLoop(Tail(todo), world, countries, res, log2)

\* for product in products: for by in valid_bys
CrossProduct(products) ==
    [i \in 1..(Len(products) * Len(valid_bys)) |->
        <<products[((i - 1) \div Len(valid_bys)) + 1],
          valid_bys[((i - 1) % Len(valid_bys)) + 1]>>]

\* The body of search_name_or_symbol.  `order` is the iteration order of the
\* set of valid requested products.
name_or_symbol_body(countries, products, order, world) ==
    LET prods == IF products.kind # "none" THEN order ELSE get_plurals
    IN  SearchLoop(CrossProduct(prods), world, countries, <<>>, <<>>)

\* The SearchObj objects investpy.search_quotes can return.  Objects are
\* compared and hashed by identity (id).
SearchObjs ==
    { [id |-> 1, symbol |-> <<"A", "B">>, name |-> <<"x">>, pair_type |-> "stocks",
       country |-> "us"],
      [id |-> 2, symbol |-> <<"z">>, name |-> <<"a", "B">>, pair_type |-> "etfs",
       country |-> "ch"],
      [id |-> 3, symbol |-> <<"a", "b", "c">>, name |-> <<"d">>, pair_type |-> "currencies",
       country |-> "us"] }
RECURSIVE ObjLists(_)
ObjLists(n) ==
    IF n = 0 THEN { <<>> }
    ELSE ObjLists(n - 1)
         \cup { Append(l, o) : l \in { x \in ObjLists(n - 1) : Len(x) = n - 1 },
                               o \in SearchObjs }
DistinctObjLists ==
    { l \in ObjLists(MaxObjs) : \A i, j \in 1..Len(l) : l[i].id = l[j].id => i = j }

\* What investpy.search_quotes answers: an exception, one SearchObj, or a list.
QuoteAnswers ==
    { [raises |-> e, single |-> FALSE, objs |-> <<>>] : e \in {"RuntimeError", "ValueError"} }
    \cup { [raises |-> "", single |-> TRUE, objs |-> <<o>>] : o \in SearchObjs }
    \cup { [raises |-> "", single |-> FALSE, objs |-> l] : l \in DistinctObjLists }

\* products = list(set(products) & set(valid_products)); products = products or None
QuoteProducts(products, order) ==
    IF products.kind = "none" THEN NoneArg
    ELSE IF order = <<>> THEN NoneArg
    ELSE List(order)

\* x.symbol.lower() == query or x.name.lower() == query, with query lowered
IsPerfect(x, query) == Lower(x.symbol) = Lower(query) \/ Lower(x.name) = Lower(query)

PerfectMatches(search_res, query) == SelectSeq(search_res, LAMBDA x : IsPerfect(x, query))
\* set(search_res) - set(perfect_matches)
AllResults(search_res, perfect) == Range(search_res)
OtherMatches(search_res, perfect) == Range(search_res) \ Range(perfect)

\* _searchobj_to_symbols(objs)
searchobj_to_symbols(objs) ==
    [i \in 1..Len(objs) |->
        [name |-> objs[i].symbol,
         type_ |-> IF is_valid(objs[i].pair_type)
                   THEN ensure_singular(objs[i].pair_type)
                   ELSE objs[i].pair_type,
         query |-> objs[i],
         aliases |-> <<objs[i].name>>,
         country |-> objs[i].country]]

\* The body of search_for_searchobjs after the provider answered.  `otherOrder`
\* is the iteration order of the set of other matches.
Triage(answer, query, otherOrder) ==
    IF answer.raises # "" THEN <<>>
    ELSE LET perfect == PerfectMatches(answer.objs, query)
         IN  (IF perfect # <<>>
              THEN (<<"investing_searchobj_perfect">> :> searchobj_to_symbols(perfect))
              ELSE <<>>)
             @@
             (IF otherOrder # <<>>
              THEN (<<"investing_searchobj_other">> :> searchobj_to_symbols(otherOrder))
              ELSE <<>>)

QuoteCall(query, countries, products, order, answer) ==
    [text |-> Lower(query),
     products |-> QuoteProducts(products, order),
     countries |-> IF countries.kind = "none" THEN NoneArg ELSE List(AsList(countries)),
     answer |-> answer]

SearchIdle ==
    /\ sreq = [fn |-> "none", query |-> <<>>, countries |-> NoneArg, products |-> NoneArg]
    /\ sres = <<>>
    /\ slog = <<>>
    /\ sqlog = <<>>
    /\ sout = ""

ValidOrders(products) ==
    IF products.kind = "none" THEN { <<>> } ELSE SetOrders(OnlyValid(AsList(products)))

search_name_or_symbol ==
    /\ sout = ""
    /\ \E query \in SearchQueries, countries \in CountryArgs, products \in ProductArgs,
          world \in Worlds :
         \E order \in ValidOrders(products) :
            LET r == name_or_symbol_body(countries, products, order, world)
            IN  /\ sreq' = [fn |-> "search_name_or_symbol", query |-> query,
                            countries |-> countries, products |-> products]
                /\ sres' = IF r.out = "returned" THEN r.res ELSE <<>>
                /\ slog' = r.log
                /\ sqlog' = <<>>
                /\ sout' = r.out

search_for_searchobjs ==
    /\ sout = ""
    /\ \E query \in SearchQueries, countries \in CountryArgs, products \in ProductArgs,
          answer \in QuoteAnswers :
         \E order \in ValidOrders(products) :
            \E otherOrder \in SetOrders(OtherMatches(answer.objs,
                                                     PerfectMatches(answer.objs, query))) :
                /\ sreq' = [fn |-> "search_for_searchobjs", query |-> query,
                            countries |-> countries, products |-> products]
                /\ sres' = Triage(answer, query, otherOrder)
                /\ slog' = <<>>
                /\ sqlog' = <<QuoteCall(query, countries, products, order, answer)>>
                /\ sout' = "returned"

\* {**search_name_or_symbol(...), **search_for_searchobjs(...)}
investing_search ==
    /\ sout = ""
    /\ \E query \in SearchQueries, countries \in CountryArgs, products \in ProductArgs,
          world \in Worlds, answer \in QuoteAnswers :
         \E order \in ValidOrders(products) :
            \E otherOrder \in SetOrders(OtherMatches(answer.objs,
                                                     PerfectMatches(answer.objs, query))) :
                LET r == name_or_symbol_body(countries, products, order, world)
                IN  /\ sreq' = [fn |-> "investing_search", query |-> query,
                                countries |-> countries, products |-> products]
                    /\ slog' = r.log
                    /\ sout' = r.out
                    /\ IF r.out = "returned"
                       THEN /\ sres' = Triage(answer, query, otherOrder) @@ r.res
                            /\ sqlog' = <<QuoteCall(query, countries, products, order, answer)>>
                       ELSE /\ sres' = <<>>
                            /\ sqlog' = <<>>

\* The caller has its answer; another call can follow.
SearchAgain ==
    /\ sout # ""
    /\ sreq' = [fn |-> "none", query |-> <<>>, countries |-> NoneArg, products |-> NoneArg]
    /\ sres' = <<>>
    /\ slog' = <<>>
    /\ sqlog' = <<>>
    /\ sout' = ""

(***************************************************************************)
(* ExtendedSymbol (tessa/symbol/extended_symbol.py): a dataclass deriving  *)
(* from Symbol.  One object is followed: the one the caller's variable     *)
(* refers to.  Strings built by get_strategy_string are sequences of their *)
(* pieces.  The jurisdiction table lives in tessa.symbol.geo; the module   *)
(* customizes it when it is imported.                                      *)
(***************************************************************************)
\* A keyword argument is <<value>> when the call passes it and <<>> when not.
NotPassed == <<>>
Passed(v) == <<v>>
PassedFrom(S) == {Passed(v) : v \in S}
NoSymbol == <<>>
NoValue == <<>>

\* tessa.symbol.geo.j2r.jurisdiction2region before the customizations.
BaseJurisdiction2Region ==
    ("US" :> "NA") @@ ("DE" :> "EU") @@ ("CH" :> "EU") @@ ("CN" :> "AS") @@ ("JP" :> "AS")

\* The dict handed to j2r.jurisdiction2region.update.
Customizations ==
    ("CH" :> "CH") @@ ("CN" :> "CN") @@ ("EU" :> "EU") @@
    ("irrelevant" :> "OT") @@ ("several" :> "OT") @@ ("unknown" :> "OT")

\* dict.update: the entries of `other` replace and extend those of `d`.
DictUpdate(d, other) == other @@ d

jurisdiction2region == DictUpdate(BaseJurisdiction2Region, Customizations)

\* j2r.map_jurisdiction_to_region, on the jurisdictions the table knows.
map_jurisdiction_to_region(jurisdiction) == jurisdiction2region[jurisdiction]

Jurisdictions == {"US", "DE", "CH", "unknown"}
Regions == {map_jurisdiction_to_region(j) : j \in Jurisdictions}
StrategyArgs ==
    {[kind |-> "list", v |-> <<>>], [kind |-> "list", v |-> <<"a", "b">>],
     [kind |-> "str", v |-> <<"s">>]}
CommentArgs == {None, "", "c"}

\* The fields of the dataclass and their defaults; init=False fields have no
\* constructor parameter.
FieldDefaults ==
    [description |-> None, country |-> "united states", watch |-> FALSE,
     delisted |-> FALSE, jurisdiction |-> "US", isin |-> None,
     strategy |-> [kind |-> "list", v |-> <<>>], strategy_comments |-> None]
InitFields == DOMAIN FieldDefaults \cup {"name"}

\* Keyword arguments of a constructor call: name is required, region is no
\* parameter of __init__, every other field may be left to its default.
ConstructorArgs ==
    [name : PassedFrom({"X"}),
     jurisdiction : PassedFrom(Jurisdictions \ {FieldDefaults.jurisdiction}) \cup {NotPassed},
     strategy : PassedFrom(StrategyArgs \ {FieldDefaults.strategy}) \cup {NotPassed},
     strategy_comments : PassedFrom({"c"}) \cup {NotPassed},
     region : PassedFrom({"EU"}) \cup {NotPassed}]

\* The __init__ the dataclass decorator generates: each parameter passed is
\* stored, each one left out gets its default.
DataclassInit(args) ==
    [f \in InitFields |->
        IF f \in DOMAIN args /\ args[f] # NotPassed THEN args[f][1] ELSE FieldDefaults[f]]

\* Symbol.__post_init__: the fields of this model are left as they are.
SymbolPostInit(obj) == obj

\* A __post_init__ that derives the region from the default jurisdiction.
PostInitFromDefaultJurisdiction(obj) ==
    [f \in DOMAIN obj \cup {"region"} |->
        IF f = "region" THEN map_jurisdiction_to_region(FieldDefaults.jurisdiction)
        ELSE SymbolPostInit(obj)[f]]

\* ExtendedSymbol.__post_init__
ExtendedSymbolPostInit(obj) ==
    [f \in DOMAIN obj \cup {"region"} |->
        IF f = "region" THEN map_jurisdiction_to_region(SymbolPostInit(obj).jurisdiction)
        ELSE SymbolPostInit(obj)[f]]

RECURSIVE Join(_)
\* ", ".join(xs)
Join(xs) ==
    IF Len(xs) = 0 THEN <<>>
    ELSE IF Len(xs) = 1 THEN xs
    ELSE <<Head(xs), ", ">> \o Join(Tail(xs))

\* The body of get_strategy_string.
StrategyString(obj) ==
    LET res == IF obj.strategy.kind = "list" THEN Join(obj.strategy.v) ELSE obj.strategy.v
    IN  IF obj.strategy_comments \notin {None, ""}
        THEN res \o <<" · ", obj.strategy_comments>>
        ELSE res

SymIdle ==
    /\ esym = NoSymbol
    /\ ereq = [op |-> "none", args |-> <<>>]
    /\ eret = [raises |-> "", value |-> NoValue]

\* s = ExtendedSymbol(**args): a keyword that is no parameter of __init__
\* raises TypeError before any object exists, and s keeps what it referred to.
ExtendedSymbol ==
    \E args \in ConstructorArgs :
        /\ ereq' = [op |-> "__init__", args |-> args]
        /\ IF args.region # NotPassed
           THEN /\ eret' = [raises |-> "TypeError", value |-> NoValue]
                /\ esym' = esym
           ELSE /\ eret' = [raises |-> "", value |-> NoValue]
                /\ esym' = ExtendedSymbolPostInit(DataclassInit(args))

\* s.<field> = value: the dataclass is not frozen, so any field can be assigned.
SetAttr ==
    /\ esym # NoSymbol
    /\ \E f \in {"watch", "jurisdiction", "region", "strategy_comments"} :
       \E v \in CASE f = "watch" -> BOOLEAN
                  [] f = "jurisdiction" -> Jurisdictions
                  [] f = "region" -> Regions
                  [] OTHER -> CommentArgs :
            /\ ereq' = [op |-> "__setattr__", args |-> [field |-> f, value |-> v]]
            /\ esym' = [esym EXCEPT ![f] = v]
            /\ eret' = [raises |-> "", value |-> NoValue]

\* s.get_strategy_string()
get_strategy_string ==
    /\ esym # NoSymbol
    /\ ereq' = [op |-> "get_strategy_string", args |-> <<>>]
    /\ eret' = [raises |-> "", value |-> StrategyString(esym)]
    /\ esym' = esym

Init == PriceInit /\ SearchIdle /\ DfIdle /\ SymIdle

Next ==
    \/ price_history /\ UNCHANGED <<searchVars, dfVars, symVars>>
    \/ price_point /\ UNCHANGED <<searchVars, dfVars, symVars>>
    \/ price_point_strict /\ UNCHANGED <<searchVars, dfVars, symVars>>
    \/ price_latest /\ UNCHANGED <<searchVars, dfVars, symVars>>
    \/ CallerMutates /\ UNCHANGED <<searchVars, dfVars, symVars>>

Spec == Init /\ [][Next]_vars

NextDf == DfConvertRow /\ UNCHANGED <<priceVars, searchVars, symVars>>

InitDf == PriceInit /\ SearchIdle /\ DfInit /\ SymIdle

SpecDf == InitDf /\ [][NextDf]_vars

NextSearch ==
    \/ search_name_or_symbol /\ UNCHANGED <<priceVars, dfVars, symVars>>
    \/ search_for_searchobjs /\ UNCHANGED <<priceVars, dfVars, symVars>>
    \/ investing_search /\ UNCHANGED <<priceVars, dfVars, symVars>>
    \/ SearchAgain /\ UNCHANGED <<priceVars, dfVars, symVars>>

SpecSearch == Init /\ [][NextSearch]_vars

NextSym ==
    \/ ExtendedSymbol /\ UNCHANGED <<priceVars, searchVars, dfVars>>
    \/ SetAttr /\ UNCHANGED <<priceVars, searchVars, dfVars>>
    \/ get_strategy_string /\ UNCHANGED <<priceVars, searchVars, dfVars>>

SpecSym == Init /\ [][NextSym]_vars

(***************************************************************************)
(* Claims about price.py, checked under Spec.                              *)
(***************************************************************************)
IsCall(op) == op \in {"price_history", "price_point", "price_point_strict", "price_latest"}
Returned == IsCall(last.op) /\ last.raised = ""
IsUpperCase(s) == \A i \in 1..Len(s) : \A j \in 1..26 : s[i] # LowerAlphabet[j]

\* C1 (as claimed): whatever callers did to the dataframes they received, the
\* dataframe a price_history call returns holds the rows originally fetched
\* from the source.
C1_CachedHistoryPreserved ==
    (last.op = "price_history" /\ last.raised = "")
        => heap[last.df] = fetched[last.df].rows

\* C2 (as claimed): for every (query, source, currency_preference) the rate
\* limiter and get_price_history_bruteforcefully are invoked at most once.
C2_AtMostOncePerTriple ==
    \A x \in Triples : rl[x] <= 1 /\ gp[x] <= 1

\* C2 (amended): the cache is keyed on the argument list as passed.  A call whose
\* argument list already has an entry is answered from it: the rate limiter and
\* the source are not invoked and the cache does not change.  The value a call
\* returns was fetched for the call's own (query, source, currency_preference),
\* so calls differing in an argument never share an entry; the rate limiter is
\* invoked exactly as often as the source.
C2_MemoizedPerArgumentList ==
    /\ [](Returned =>
            /\ last.args \in DOMAIN cache
            /\ cache[last.args].df = last.df
            /\ fetched[last.df].triple = Bind(last.args))
    /\ [](\A x \in Triples : rl[x] = gp[x])
    /\ [][\A args \in ArgLists :
            (args \in DOMAIN cache /\ nCalls' = nCalls + 1 /\ last'.args = args)
                => /\ last'.hit /\ last'.raised # "SourceError"
                   /\ rl' = rl /\ gp' = gp /\ cache' = cache
                   /\ last'.df = cache[args].df]_vars
    /\ [][\A args \in ArgLists :
            (args \notin DOMAIN cache /\ nCalls' = nCalls + 1 /\ last'.args = args)
                => /\ rl'[Bind(args)] = rl[Bind(args)] + 1
                   /\ gp'[Bind(args)] = gp[Bind(args)] + 1
                   /\ last'.raised = "SourceError" <=> args \notin DOMAIN cache']_vars

\* A helper call answered from the cache after the single fetch of its triple.
C2_Witness ==
    /\ last.op = "price_latest" /\ last.hit
    /\ rl[Bind(last.args)] = 1 /\ gp[Bind(last.args)] = 1

\* C3: price_point returns an entry of the price history whose timestamp is as
\* close to `when` as any entry's (so the entry at `when` if there is one); the
\* PricePoint carries that entry's timestamp and close, and the effective
\* currency price_history gives for the same arguments.
C3_PricePointNearest ==
    (last.op = "price_point" /\ last.raised = "") =>
        LET rows == heap[last.df]
        IN  /\ \E i \in 1..Len(rows) :
                 /\ rows[i].t = last.point.when
                 /\ rows[i].close = last.point.price
                 /\ \A j \in 1..Len(rows) :
                        Abs(rows[i].t - last.when) <= Abs(rows[j].t - last.when)
            /\ last.df = cache[last.args].df
            /\ last.point.currency = cache[last.args].currency

\* price_point answered with a neighbouring entry: no entry at `when`.
C3_Witness ==
    /\ last.op = "price_point" /\ last.raised = ""
    /\ last.point.when > last.when
    /\ \E i \in 1..Len(heap[last.df]) : heap[last.df][i].t < last.when

StrictResult ==
    LET rows == heap[cache[last.args].df]
        present == \E i \in 1..Len(rows) : rows[i].t = last.when
    IN  /\ last.raised \in {"", "KeyError"}
        /\ last.raised = "KeyError" <=> ~present
        /\ last.raised = "KeyError" => last.point = NoPoint
        /\ last.raised = "" =>
              /\ last.point.when = last.when
              /\ \E i \in 1..Len(rows) :
                    rows[i].t = last.when /\ rows[i].close = last.point.price

StrictCall == nCalls' = nCalls + 1 /\ last'.op = "price_point_strict"

\* C4 (as claimed): once price_history has delivered, price_point_strict returns
\* the entry at exactly `when` or raises KeyError when there is none, and a call
\* that raises KeyError leaves the price-history cache as it was before the call.
C4_StrictLookupCacheUnchanged ==
    [][(StrictCall /\ last'.raised # "SourceError")
          => /\ StrictResult'
             /\ last'.raised = "KeyError" => cache' = cache]_vars

\* C4 (amended): as above, but a call that raises KeyError leaves every entry
\* already in the cache (and its dataframe) as it was; the only change it can
\* make is to add the entry it fetched for its own arguments.
C4_StrictLookup ==
    [][(StrictCall /\ last'.raised # "SourceError")
          => /\ StrictResult'
             /\ last'.raised = "KeyError" =>
                   /\ \A k \in DOMAIN cache :
                         /\ k \in DOMAIN cache'
                         /\ cache'[k] = cache[k]
                         /\ heap'[cache[k].df] = heap[cache[k].df]
                   /\ DOMAIN cache' \subseteq DOMAIN cache \cup {last'.args}]_vars

\* A strict lookup that failed on a history fetched by the same call.
C4_Witness ==
    /\ last.op = "price_point_strict" /\ last.raised = "KeyError"
    /\ ~last.hit /\ last.args \in DOMAIN cache

\* C5: price_latest returns the timestamp and close of the last (latest) row of
\* the price history and its effective currency, which is the currency the
\* source reported in upper case.
C5_PriceLatest ==
    (last.op = "price_latest" /\ last.raised = "") =>
        LET rows == heap[last.df]
        IN  /\ last.df = cache[last.args].df
            /\ last.point.when = rows[Len(rows)].t
            /\ last.point.price = rows[Len(rows)].close
            /\ \A j \in 1..Len(rows) : rows[j].t <= last.point.when
            /\ last.point.currency = cache[last.args].currency
            /\ IsUpperCase(last.point.currency)
            /\ Len(last.point.currency) = Len(SourceCurrency(last.args))
            /\ \A i \in 1..Len(last.point.currency) :
                  \/ last.point.currency[i] = SourceCurrency(last.args)[i]
                  \/ \E j \in 1..26 :
                        /\ SourceCurrency(last.args)[i] = LowerAlphabet[j]
                        /\ last.point.currency[i] = UpperAlphabet[j]

\* price_latest on a history of several rows whose source reported the currency
\* in mixed case.
C5_Witness ==
    /\ last.op = "price_latest" /\ last.raised = ""
    /\ Len(heap[last.df]) > 1
    /\ ~IsUpperCase(SourceCurrency(last.args))

(***************************************************************************)
(* Claims about _dataframe_to_symbols, checked under SpecDf.               *)
(***************************************************************************)
Converted == dsym # <<>>

\* C7 (as claimed): the alias list passed to Symbol holds each value at most
\* once, never holds the value chosen as the name, and never holds None or "".
C7_AliasesClean ==
    Converted =>
        LET al == dsym["aliases"]
        IN  /\ \A i, j \in 1..Len(al) : al[i] = al[j] => i = j
            /\ \A i \in 1..Len(al) : al[i] # dsym["name"]
            /\ \A i \in 1..Len(al) : al[i] # None /\ al[i] # ""

\* C8 (as claimed): the Symbol arguments follow the mapping table: name, query,
\* country and type_ come from the columns the table gives for the type, and
\* every alias is the value of a column the table lists as an alias of the type.
C8_FollowsMappingTable ==
    Converted =>
        LET type_ == ensure_singular(dprod)
            al == dsym["aliases"]
        IN  /\ dsym["name"] = drow[MappingNameColumn(type_)]
            /\ "query" \in DOMAIN dsym <=> MappingHasQuery(type_)
            /\ "query" \in DOMAIN dsym => dsym["query"] = drow["name"]
            /\ "country" \in DOMAIN dsym <=> MappingHasCountry(type_)
            /\ "country" \in DOMAIN dsym => dsym["country"] = drow["country"]
            /\ dsym["type_"] = type_
            /\ \A i \in 1..Len(al) :
                  \E col \in MappingAliasColumns(type_) : drow[col] = al[i]

(***************************************************************************)
(* Claims about the search functions, checked under SpecSearch.            *)
(***************************************************************************)
PerfectKey == <<"investing_searchobj_perfect">>
OtherKey == <<"investing_searchobj_other">>
Category(key) == IF key \in DOMAIN sres THEN sres[key] ELSE <<>>
CaseInsensitiveEq(a, b) == Upper(a) = Upper(b)
Requested == Range(AsList(sreq.products)) \cap Range(Plurals)

C10_OnlyRequestedValidProducts ==
    (sout # "" /\ sreq.products.kind # "none") =>
        /\ \A i \in 1..Len(slog) : slog[i].product \in Requested
        /\ \A i \in 1..Len(sqlog) :
              /\ sqlog[i].products.kind # "none"
              /\ Range(sqlog[i].products.v) \subseteq Requested

(***************************************************************************)
(* ExtendedSymbol: the derived region.                                     *)
(***************************************************************************)
Consistent(obj) == obj.region = map_jurisdiction_to_region(obj.jurisdiction)

\* C11 (as claimed): in every state after construction the ExtendedSymbol's
\* region equals map_jurisdiction_to_region(jurisdiction); no later operation
\* leaves region inconsistent with jurisdiction.
C11_RegionAlwaysDerived == esym # NoSymbol => Consistent(esym)

\* C11 (amended): a constructor call that passes region raises TypeError and
\* creates no object; a constructor call that succeeds yields an object whose
\* jurisdiction is the one passed (or the default) and whose region equals
\* map_jurisdiction_to_region(jurisdiction); get_strategy_string and an
\* assignment to any field other than jurisdiction and region leave both
\* fields as they are; an assignment to jurisdiction or to region changes that
\* field only, the other is not recomputed.
C11_RegionDerivedAtConstruction ==
    [][/\ ereq'.op = "__init__" =>
            IF ereq'.args.region # NotPassed
            THEN eret'.raises = "TypeError" /\ esym' = esym
            ELSE /\ eret'.raises = ""
                 /\ esym'.jurisdiction =
                        IF ereq'.args.jurisdiction = NotPassed
                        THEN FieldDefaults.jurisdiction
                        ELSE ereq'.args.jurisdiction[1]
                 /\ Consistent(esym')
       /\ ereq'.op = "get_strategy_string" => esym' = esym
       /\ ereq'.op = "__setattr__" =>
            /\ esym'[ereq'.args.field] = ereq'.args.value
            /\ \A f \in DOMAIN esym \ {ereq'.args.field} : esym'[f] = esym[f]
            /\ DOMAIN esym' = DOMAIN esym
      ]_vars

\* An object constructed with a jurisdiction other than the default one, then
\* used: its region is the one the table gives for that jurisdiction.
C11_Witness ==
    /\ ereq.op = "get_strategy_string"
    /\ esym # NoSymbol
    /\ esym.jurisdiction = "CH"
    /\ esym.region = "CH"
    /\ eret.value = <<"a", ", ", "b", " · ", "c">>

====
